---- MODULE Spec2Model ----
(***************************************************************************)
(* Key lifecycle and token engine of simple-jwt-generator.                 *)
(*                                                                         *)
(*   KeyService  src/src/services/keyService.ts                            *)
(*   JWTService  src/unnamed/part_006 (lines 66-215, services/jwtService)  *)
(*   App.start   src/src/index.ts                                          *)
(*                                                                         *)
(* One server process at a time runs against a keys directory that         *)
(* outlives it.  A key pair is modelled by its identity k \in 1..MaxKeys:  *)
(* the private half and the public half of pair k are both written k.      *)
(* jose (the JOSE library the services call) is modelled by its documented *)
(* behaviour at the call sites.                                            *)
(***************************************************************************)
EXTENDS Integers, Sequences, FiniteSets, TLC

\* ------------------------------------------------------------------ bounds
MaxKeys  == 2      \* key pairs jose.generateKeyPair may produce in one behaviour
MaxTime  == 2      \* clock ticks (seconds)
MaxTokens == 1     \* tokens held by clients at one time

\* --------------------------------------------------------- storage values
Absent  == 0       \* the artifact does not exist in the keys directory
Corrupt == -1      \* the artifact exists but is no parsable PEM (torn write)
None    == 0       \* null key handle (keyService.ts:7-8)

KeyIds == 1..MaxKeys

VARIABLES
  privFile,        \* keys/private-key.pem : Absent, Corrupt or k
  pubFile,         \* keys/public-key.pem  : Absent, Corrupt or k
  privateKey,      \* KeyService.privateKey : None or k
  publicKey,       \* KeyService.publicKey  : None or k
  pc,              \* where App.start / initializeKeys of the running process stands
  listening,       \* app.listen has been called: requests are dispatched
  privateKeyExists,\* local of initializeKeys (line 23)
  publicKeyExists, \* local of initializeKeys (line 24)
  privateKeyPem,   \* local of loadKeys (line 72)
  publicKeyPem,    \* local of loadKeys (line 73)
  nextKey,         \* identity of the next key pair jose.generateKeyPair returns
  prevKeys,        \* key pair of the previous process when its initializeKeys resolved
  issuer,          \* JWTService.issuer         (process.env.JWT_ISSUER)
  audience,        \* JWTService.audience       (process.env.JWT_AUDIENCE)
  expirationTime,  \* JWTService.expirationTime (process.env.JWT_EXPIRATION)
  now,             \* the clock, in seconds: Math.floor(Date.now() / 1000)
  tokens,          \* compact tokens returned to clients and still held by them
  lastOp,          \* the request served by the last step and its outcome (else NoOp)
  peer,            \* a second instance on the same keys directory, while it is not the one stepping (else NoPeer)
  database         \* the Database singleton: isConnected, and whether connect has registered its listeners

keyVars == <<privFile, pubFile, privateKey, publicKey, pc, listening,
             privateKeyExists, publicKeyExists, privateKeyPem, publicKeyPem,
             nextKey, prevKeys>>

svcVars == <<issuer, audience, expirationTime>>
reqVars == <<tokens, lastOp>>
envVars == <<peer, database>>

vars == <<keyVars, svcVars, now, reqVars, envVars>>

\* ------------------------------------------------------------- KeyService
\* fileExists (keyService.ts:154-161)
fileExists(file) == file # Absent

\* A fresh process: KeyService constructed, nothing initialised.
FreshProcess ==
  /\ privateKey = None /\ publicKey = None
  /\ pc = "Uninitialized" /\ listening = FALSE
  /\ privateKeyExists = FALSE /\ publicKeyExists = FALSE
  /\ privateKeyPem = Absent /\ publicKeyPem = Absent

\* ------------------------------------------------------------- JWTService
\* keyService.ts:9: the key id is a field initialiser; no code assigns it.
keyId == "default-key-id"

\* The values of process.env.KEY_ID: not set, or the custom key id of the
\* README.  No code reads it, so nothing in the state depends on it.
KEY_ID == {"", "custom-key-id"}

\* getKeyId (keyService.ts:108-110)
getKeyId == keyId

\* The caller's part of the payload (JWTPayload without iat, exp, iss, aud).
ClaimSets ==
  { [sub |-> "u1", username |-> "alice", email |-> "a@example.com"],
    [sub |-> "u2", username |-> "bob",   email |-> "b@example.com"] }

\* part_006:76-78: the constructor reads the configuration from the
\* environment; the defaults are the first elements.
Issuers   == {"jwt-generator-app"}
Audiences == {"jwt-generator-api"}
\* JWT_EXPIRATION as <number><unit>, e.g. 1h
ExpirationTimes ==
  { [value |-> 1, unit |-> "s"], [value |-> 2, unit |-> "m"],
    [value |-> 1, unit |-> "h"], [value |-> 1, unit |-> "w"],
    [value |-> 1, unit |-> "x"] }

NoOp == [op |-> "none"]

\* No second instance shares the keys directory.
NoPeer == [pc |-> "none"]

\* database.ts:5: `private isConnected: boolean = false`, no listener yet
NewDatabase == [isConnected |-> FALSE, listeners |-> FALSE]

Init ==
  /\ privFile = Absent /\ pubFile = Absent
  /\ FreshProcess
  /\ nextKey = 1
  /\ prevKeys = <<None, None>>
  /\ issuer \in Issuers
  /\ audience \in Audiences
  /\ expirationTime \in ExpirationTimes
  /\ now = 0
  /\ tokens = {}
  /\ lastOp = NoOp
  /\ peer = NoPeer
  /\ database = NewDatabase

\* ensureKeysDirectory (keyService.ts:146-152): fs.access, else fs.mkdir; a
\* failing mkdir throws out of initializeKeys.
DirOutcomes == {"ok", "failed"}
\* fs.readFile of both artifacts (keyService.ts:72-73)
ReadOutcomes == {"ok", "failed"}
\* fs.writeFile (keyService.ts:57-58): written; failed with the file left as
\* it was; failed with the file left torn (created or truncated, not a PEM).
WriteOutcomes == {"ok", "failed", "torn"}

AfterWrite(file, outcome, pem) ==
  CASE outcome = "ok"     -> pem
    [] outcome = "failed" -> file
    [] outcome = "torn"   -> Corrupt

\* jose.importPKCS8 / jose.importSPKI (keyService.ts:75-76) throw on a text
\* that is no PEM of the expected kind.
Parsable(pem) == pem \in KeyIds

\* keyService.ts:26: the branch condition of initializeKeys
ShouldLoadKeys(privExists, pubExists) == privExists /\ pubExists

\* keyService.ts:61-64: the catch around export and writeFile in generateKeyPair
\* logs and returns normally, so initializeKeys resolves.
AfterWriteFailure == "InitDone"

\* keyService.ts:33-36 and 79-82: any other fault is rethrown to App.start.
AfterInitFailure == "Failed"

\* Mutant: app.listen called without awaiting initializeKeys.
ListenGuardNotAwaited ==
  pc \in {"Initializing", "LoadKeys", "ImportPrivate", "ImportPublic",
          "GenerateKeyPair", "WritePrivate", "WritePublic", "InitDone"}

\* Mutant: app.listen placed after the try/catch of App.start, with a catch
\* that does not leave.
ListenGuardAfterCatch == pc \in {"InitDone", "Failed"}

\* index.ts:144-147: app.listen is the statement after `await initializeKeys()`.
ListenGuard == pc = "InitDone"

\* getPrivateKey (keyService.ts:88-93): the key handle, or the Error thrown.
getPrivateKey ==
  IF privateKey = None
  THEN [threw |-> TRUE, error |-> "Private key not initialized"]
  ELSE [threw |-> FALSE, key |-> privateKey]
\* getPublicKey (keyService.ts:98-103)
getPublicKey ==
  IF publicKey = None
  THEN [threw |-> TRUE, error |-> "Public key not initialized"]
  ELSE [threw |-> FALSE, key |-> publicKey]

\* The key manager's state in the terms of the specification.
KeyManagerState ==
  CASE pc \in {"Uninitialized", "Connecting"} -> "Uninitialized"
    [] pc \in {"Ready", "InitDone"}  -> "Ready"
    [] pc \in {"Failed", "Exited"}   -> "Failed"
    [] OTHER                         -> "Initializing"

locals == <<privateKeyExists, publicKeyExists, privateKeyPem, publicKeyPem>>
files  == <<privFile, pubFile>>
memory == <<privateKey, publicKey>>
hist   == <<prevKeys>>
kept   == <<svcVars, now, tokens, envVars>>

\* App.start up to the call of keyService.initializeKeys (index.ts:134-144)
Start ==
  /\ pc = "Uninitialized"
  /\ pc' = "Initializing"
  /\ UNCHANGED <<files, memory, listening, locals, nextKey, hist, kept>>
  /\ lastOp' = NoOp

\* initializeKeys up to the branch (keyService.ts:19-32)
InitializeKeys ==
  /\ pc = "Initializing"
  /\ \E dir \in DirOutcomes :
       IF dir = "failed"
       THEN /\ pc' = AfterInitFailure
            /\ UNCHANGED <<privateKeyExists, publicKeyExists>>
       ELSE /\ privateKeyExists' = fileExists(privFile)
            /\ publicKeyExists' = fileExists(pubFile)
            /\ pc' = IF ShouldLoadKeys(privateKeyExists', publicKeyExists')
                     THEN "LoadKeys" ELSE "GenerateKeyPair"
  /\ UNCHANGED <<files, memory, listening, privateKeyPem, publicKeyPem,
                 nextKey, hist, kept>>
  /\ lastOp' = NoOp

\* loadKeys: the two readFile calls (keyService.ts:72-73)
LoadKeysRead ==
  /\ pc = "LoadKeys"
  /\ \E rd \in ReadOutcomes :
       IF rd = "failed"
       THEN /\ pc' = AfterInitFailure
            /\ UNCHANGED <<privateKeyPem, publicKeyPem>>
       ELSE /\ privateKeyPem' = privFile
            /\ publicKeyPem' = pubFile
            /\ pc' = "ImportPrivate"
  /\ UNCHANGED <<files, memory, listening, privateKeyExists, publicKeyExists,
                 nextKey, hist, kept>>
  /\ lastOp' = NoOp

\* loadKeys: this.privateKey = await jose.importPKCS8(...) (keyService.ts:75)
LoadKeysImportPrivate ==
  /\ pc = "ImportPrivate"
  /\ IF Parsable(privateKeyPem)
     THEN privateKey' = privateKeyPem /\ pc' = "ImportPublic"
     ELSE privateKey' = privateKey /\ pc' = AfterInitFailure
  /\ UNCHANGED <<files, publicKey, listening, locals, nextKey, hist, kept>>
  /\ lastOp' = NoOp

\* loadKeys: this.publicKey = await jose.importSPKI(...) (keyService.ts:76)
LoadKeysImportPublic ==
  /\ pc = "ImportPublic"
  /\ IF Parsable(publicKeyPem)
     THEN publicKey' = publicKeyPem /\ pc' = "InitDone"
     ELSE publicKey' = publicKey /\ pc' = AfterInitFailure
  /\ UNCHANGED <<files, privateKey, listening, locals, nextKey, hist, kept>>
  /\ lastOp' = NoOp

\* generateKeyPair: jose.generateKeyPair and the two assignments
\* (keyService.ts:43-49)
GenerateKeyPair ==
  /\ pc = "GenerateKeyPair"
  /\ nextKey <= MaxKeys
  /\ privateKey' = nextKey
  /\ publicKey' = nextKey
  /\ nextKey' = nextKey + 1
  /\ pc' = "WritePrivate"
  /\ UNCHANGED <<files, listening, locals, hist, kept>>
  /\ lastOp' = NoOp

\* generateKeyPair: fs.writeFile of private-key.pem (keyService.ts:57)
WritePrivateKey ==
  /\ pc = "WritePrivate"
  /\ \E w \in WriteOutcomes :
       /\ privFile' = AfterWrite(privFile, w, privateKey)
       /\ pc' = IF w = "ok" THEN "WritePublic" ELSE AfterWriteFailure
  /\ UNCHANGED <<pubFile, memory, listening, locals, nextKey, hist, kept>>
  /\ lastOp' = NoOp

\* generateKeyPair: fs.writeFile of public-key.pem (keyService.ts:58)
WritePublicKey ==
  /\ pc = "WritePublic"
  /\ \E w \in WriteOutcomes :
       /\ pubFile' = AfterWrite(pubFile, w, publicKey)
       /\ pc' = IF w = "ok" THEN "InitDone" ELSE AfterWriteFailure
  /\ UNCHANGED <<privFile, memory, listening, locals, nextKey, hist, kept>>
  /\ lastOp' = NoOp

\* App.start after initializeKeys resolved: app.listen (index.ts:147)
Listen ==
  /\ ListenGuard
  /\ listening = FALSE
  /\ listening' = TRUE
  /\ pc' = IF pc = "InitDone" THEN "Ready" ELSE pc
  /\ UNCHANGED <<files, memory, locals, nextKey, hist, kept>>
  /\ lastOp' = NoOp

\* App.start's catch: process.exit(1) (index.ts:163-166).  The process and
\* its memory are gone.
ProcessExit ==
  /\ pc = "Failed"
  /\ pc' = "Exited"
  /\ privateKey' = None /\ publicKey' = None /\ listening' = FALSE
  /\ privateKeyExists' = FALSE /\ publicKeyExists' = FALSE
  /\ privateKeyPem' = Absent /\ publicKeyPem' = Absent
  /\ UNCHANGED <<files, nextKey, hist, kept>>
  /\ lastOp' = NoOp

\* The process is stopped and a new one is started against the same keys
\* directory (module-level singletons are constructed anew).
Restart ==
  /\ pc \in {"Ready", "Exited"}
  /\ prevKeys' = IF pc = "Ready" THEN <<privateKey, publicKey>> ELSE prevKeys
  /\ privateKey' = None /\ publicKey' = None
  /\ pc' = "Uninitialized" /\ listening' = FALSE
  /\ privateKeyExists' = FALSE /\ publicKeyExists' = FALSE
  /\ privateKeyPem' = Absent /\ publicKeyPem' = Absent
  /\ UNCHANGED <<files, nextKey, kept>>
  /\ lastOp' = NoOp

\* ------------------------------------------------------ jose, as called
\* Time span of setExpirationTime(string), in seconds; -1 stands for the
\* TypeError jose throws on a span it cannot parse (part_006:101).
JoseSecs(span) ==
  CASE span.unit = "s" -> span.value
    [] span.unit = "m" -> span.value * 60
    [] span.unit = "h" -> span.value * 3600
    [] span.unit = "d" -> span.value * 86400
    [] span.unit = "w" -> span.value * 604800
    [] OTHER           -> -1

\* RS256 signature: made with the private half of pair k over the encoded
\* header and payload; it verifies under the public half of the same pair and
\* over the same header and payload only.
Sign(k, header, payload) == [key |-> k, header |-> header, payload |-> payload]

\* A token string is modelled by its '.'-separated segments, named by position:
\* header, payload, signature (and more for a longer string).  The compact
\* form jwtVerify takes has exactly three.
Segments(token) == Cardinality(DOMAIN token)

\* Mutant: the payload is decoded and its claims checked, the signature is not
\* (jose.decodeJwt in the place of jose.jwtVerify).
JwtVerifyUnsigned(token, key, iss, aud, clock) ==
  IF Segments(token) # 3
  THEN [error |-> "JWSInvalid"]
  ELSE IF token.payload.iss # iss \/ token.payload.aud # aud
  THEN [error |-> "JWTClaimValidationFailed"]
  ELSE IF token.payload.exp <= clock
  THEN [error |-> "JWTExpired"]
  ELSE [error |-> "none", payload |-> token.payload]

\* Mutant: exp compared as isTokenExpired compares it (part_006:171), a token
\* still passing in the second of its exp.
JwtVerifyLateExpiry(token, key, iss, aud, clock) ==
  IF Segments(token) # 3
  THEN [error |-> "JWSInvalid"]
  ELSE IF token.signature # Sign(key, token.header, token.payload)
  THEN [error |-> "JWSSignatureVerificationFailed"]
  ELSE IF token.payload.iss # iss \/ token.payload.aud # aud
  THEN [error |-> "JWTClaimValidationFailed"]
  ELSE IF token.payload.exp < clock
  THEN [error |-> "JWTExpired"]
  ELSE [error |-> "none", payload |-> token.payload]

\* Mutant: exp checked before iss and aud.
JwtVerifyExpiryFirst(token, key, iss, aud, clock) ==
  IF Segments(token) # 3
  THEN [error |-> "JWSInvalid"]
  ELSE IF token.signature # Sign(key, token.header, token.payload)
  THEN [error |-> "JWSSignatureVerificationFailed"]
  ELSE IF token.payload.exp <= clock
  THEN [error |-> "JWTExpired"]
  ELSE IF token.payload.iss # iss \/ token.payload.aud # aud
  THEN [error |-> "JWTClaimValidationFailed"]
  ELSE [error |-> "none", payload |-> token.payload]

\* jose.jwtVerify(token, publicKey, {issuer, audience}) (part_006:125-128):
\* the compact form first (a string that does not split into three segments
\* is a JWSInvalid), then the signature, then iss, aud, and exp against the
\* clock (clock tolerance 0: a token is expired from the second exp on).  The
\* result is either the payload or the class of the error thrown.
JwtVerify(token, key, iss, aud, clock) ==
  IF Segments(token) # 3
  THEN [error |-> "JWSInvalid"]
  ELSE IF token.signature # Sign(key, token.header, token.payload)
  THEN [error |-> "JWSSignatureVerificationFailed"]
  ELSE IF token.payload.iss # iss
  THEN [error |-> "JWTClaimValidationFailed"]
  ELSE IF token.payload.aud # aud
  THEN [error |-> "JWTClaimValidationFailed"]
  ELSE IF token.payload.exp <= clock
  THEN [error |-> "JWTExpired"]
  ELSE [error |-> "none", payload |-> token.payload]

\* ------------------------------------------------------------- JWTService
\* calculateExpirationSeconds (part_006:200-211)
calculateExpirationSeconds(expiration) ==
  CASE expiration.unit = "s" -> expiration.value
    [] expiration.unit = "m" -> expiration.value * 60
    [] expiration.unit = "h" -> expiration.value * 60 * 60
    [] expiration.unit = "d" -> expiration.value * 24 * 60 * 60
    [] OTHER                 -> 3600

\* Mutant: setIssuer and setAudience given each other's argument.
BuildTokenSwapped(payload, key) ==
  LET header == [alg |-> "RS256", typ |-> "JWT", kid |-> keyId]
      claims == [sub |-> payload.sub, username |-> payload.username,
                 email |-> payload.email, iat |-> now, iss |-> audience,
                 aud |-> issuer, exp |-> now + JoseSecs(expirationTime)]
  IN  [header |-> header, payload |-> claims,
       signature |-> Sign(key, header, claims)]

\* Mutant: kid taken from the key pair (one id per generated pair) and not
\* from getKeyId.
BuildTokenKidOfPair(payload, key) ==
  LET header == [alg |-> "RS256", typ |-> "JWT", kid |-> ToString(key)]
      claims == [sub |-> payload.sub, username |-> payload.username,
                 email |-> payload.email, iat |-> now, iss |-> issuer,
                 aud |-> audience, exp |-> now + JoseSecs(expirationTime)]
  IN  [header |-> header, payload |-> claims,
       signature |-> Sign(key, header, claims)]

\* The token SignJWT builds (part_006:90-102).  setIssuedAt and
\* setExpirationTime are consecutive synchronous calls and read the clock in
\* the same second.
BuildToken(payload, key) ==
  LET header == [alg |-> "RS256", typ |-> "JWT", kid |-> keyId]
      claims == [sub |-> payload.sub, username |-> payload.username,
                 email |-> payload.email, iat |-> now, iss |-> issuer,
                 aud |-> audience, exp |-> now + JoseSecs(expirationTime)]
  IN  [header |-> header, payload |-> claims,
       signature |-> Sign(key, header, claims)]

\* generateToken (part_006:84-116)
generateToken(payload) ==
  IF getPrivateKey.threw \/ JoseSecs(expirationTime) < 0
  THEN [ok |-> FALSE, error |-> "Token generation failed"]
  ELSE [ok |-> TRUE,
        access_token |-> BuildToken(payload, getPrivateKey.key),
        token_type |-> "Bearer",
        expires_in |-> calculateExpirationSeconds(expirationTime)]

\* The catch of verifyToken (part_006:140-150): message by error class.
VerifyErrorMessage(class) ==
  CASE class = "JWTExpired" -> "Token has expired"
    [] class = "JWTInvalid" -> "Invalid token"
    [] OTHER                -> "Token verification failed"

\* Mutant: verifyToken remembering the token of the previous request and
\* refusing to accept it a second time.
verifyTokenOnce(token) ==
  IF getPublicKey.threw
  THEN [ok |-> FALSE, error |-> VerifyErrorMessage("Error")]
  ELSE LET v == JwtVerify(token, getPublicKey.key, issuer, audience, now)
       IN  IF v.error # "none"
           THEN [ok |-> FALSE, error |-> VerifyErrorMessage(v.error)]
           ELSE IF lastOp.op = "verifyToken" /\ lastOp.input = token
           THEN [ok |-> FALSE, error |-> VerifyErrorMessage("Error")]
           ELSE [ok |-> TRUE,
                 payload |-> [sub |-> v.payload.sub,
                              username |-> v.payload.username,
                              email |-> v.payload.email,
                              iat |-> v.payload.iat, exp |-> v.payload.exp,
                              iss |-> v.payload.iss, aud |-> v.payload.aud]]

\* verifyToken (part_006:121-151)
verifyToken(token) ==
  IF getPublicKey.threw
  THEN [ok |-> FALSE, error |-> VerifyErrorMessage("Error")]
  ELSE LET v == JwtVerify(token, getPublicKey.key, issuer, audience, now)
       IN  IF v.error # "none"
           THEN [ok |-> FALSE, error |-> VerifyErrorMessage(v.error)]
           ELSE [ok |-> TRUE,
                 payload |-> [sub |-> v.payload.sub,
                              username |-> v.payload.username,
                              email |-> v.payload.email,
                              iat |-> v.payload.iat, exp |-> v.payload.exp,
                              iss |-> v.payload.iss, aud |-> v.payload.aud]]

\* Mutant: the entry carries the time the document was made in its kid.
getJWKSStamped ==
  IF publicKey = None
  THEN [ok |-> FALSE, error |-> "Public key not initialized"]
  ELSE [ok |-> TRUE,
        keys |-> << [kty |-> "RSA", use |-> "sig", key_ops |-> <<"verify">>,
                     alg |-> "RS256", kid |-> ToString(now), n |-> publicKey,
                     e |-> "AQAB"] >>]

\* getJWKS (keyService.ts:115-141); n stands for the modulus of the pair.
getJWKS ==
  IF publicKey = None
  THEN [ok |-> FALSE, error |-> "Public key not initialized"]
  ELSE [ok |-> TRUE,
        keys |-> << [kty |-> "RSA", use |-> "sig", key_ops |-> <<"verify">>,
                     alg |-> "RS256", kid |-> keyId, n |-> publicKey,
                     e |-> "AQAB"] >>]

\* Mutant: getJWKS keeping the document of its first call in a field and
\* returning it on later calls.
exportJWKCallsCached(again) ==
  IF publicKey = None \/ again THEN <<>> ELSE <<"exportJWK">>

\* The calls of jose.exportJWK one getJWKS call makes (keyService.ts:120-123).
\* KeyService has no field for the document: whether getJWKS was called
\* before (again) makes no difference.
exportJWKCalls(again) ==
  IF publicKey = None THEN <<>> ELSE <<"exportJWK">>

\* decodeToken (part_006:156-165): header and payload decoded, nothing
\* verified.
decodeToken(token) == [header |-> token.header, payload |-> token.payload]

\* A payload segment that is not the encoding of a JSON object.
NotJson == [raw |-> "not json"]

\* jose.decodeJwt (part_006:159, 172): the payload of a string of three
\* segments whose second decodes to a JSON object, else a JWTInvalid; nothing
\* is verified.
decodeJwt(token) ==
  IF Segments(token) # 3 \/ token.payload = NotJson
  THEN [error |-> "JWTInvalid"]
  ELSE [error |-> "none", payload |-> token.payload]

\* Mutant: a token that cannot be decoded counts as not expired.
isTokenExpiredFailOpen(token) ==
  LET d == decodeJwt(token)
  IN  IF d.error # "none" THEN [threw |-> FALSE, value |-> FALSE]
      ELSE IF "exp" \notin DOMAIN d.payload
      THEN [threw |-> FALSE, value |-> FALSE]
      ELSE [threw |-> FALSE, value |-> d.payload.exp < now]

\* isTokenExpired (part_006:170-183): the whole body is inside the try, whose
\* catch returns true.
isTokenExpired(token) ==
  LET d == decodeJwt(token)
  IN  IF d.error # "none" THEN [threw |-> FALSE, value |-> TRUE]
      ELSE IF "exp" \notin DOMAIN d.payload
      THEN [threw |-> FALSE, value |-> FALSE]
      ELSE [threw |-> FALSE, value |-> d.payload.exp < now]

\* ------------------------------------------------------------- handlers
\* The stack an error object carries: its text and the frames it was made in.
StackOf(message) == <<message, "at <frames>">>

\* An Error with a message, and an AppError (errorHandler.ts:4-15)
Error(message) ==
  [name |-> "Error", message |-> message, stack |-> StackOf(message)]
AppError(message, statusCode) ==
  [name |-> "AppError", message |-> message, statusCode |-> statusCode,
   stack |-> StackOf(message)]

\* The error express.json passes on for a body that is no JSON (index.ts:45):
\* the SyntaxError of JSON.parse.
BodyParseError ==
  [name |-> "SyntaxError", message |-> "Unexpected token } in JSON at position 1",
   stack |-> StackOf("Unexpected token } in JSON at position 1")]

\* The values of process.env.NODE_ENV that errorHandler tells apart; it reads
\* the variable on each call (errorHandler.ts:45, 67).
NODE_ENV == {"production", "development"}

\* errorHandler (errorHandler.ts:17-72)
errorHandler(error, env) ==
  LET statusCode ==
        CASE error.name = "AppError" -> error.statusCode
          [] error.name \in {"ValidationError", "CastError"} -> 400
          [] OTHER -> 500
      message ==
        CASE error.name = "AppError" -> error.message
          [] error.name = "ValidationError" -> "Validation Error"
          [] error.name = "CastError" -> "Invalid ID format"
          [] error.name \in {"MongoError", "MongooseError"} -> "Database Error"
          [] error.message # "" -> error.message
          [] OTHER -> "Internal Server Error"
  IN  [status |-> statusCode,
       body |-> IF env = "development"
                THEN [success |-> FALSE, error |-> message,
                      stack |-> error.stack]
                ELSE [success |-> FALSE, error |-> message]]

\* asyncHandler (errorHandler.ts:81-85): what the wrapped handler throws is
\* passed to next, and so to errorHandler; a handler that answered is left
\* alone.
asyncHandler(outcome, env) ==
  IF "thrown" \in DOMAIN outcome
  THEN errorHandler(outcome.thrown, env)
  ELSE outcome

\* The responses a wrapped handler's outcome may end in.
Responses(outcome) == { asyncHandler(outcome, env) : env \in NODE_ENV }

\* A request that carries no token, in the body or in the Authorization header.
NoToken == [none |-> TRUE]

\* The two answers of the validation handlers after verifyToken.
ValidResponse(token, payload) ==
  [status |-> 200,
   body |-> [success |-> TRUE,
             data |-> [valid |-> TRUE, payload |-> payload,
                       decoded |-> decodeToken(token)],
             message |-> "Token is valid"]]

InvalidResponse(message) ==
  [status |-> 401,
   body |-> [success |-> FALSE,
             data |-> [valid |-> FALSE, error |-> message],
             error |-> "Token validation failed"]]

\* Mutant: validateToken without its try/catch; what verifyToken throws goes
\* through asyncHandler to errorHandler.
validateTokenUncaught(token) ==
  IF token = NoToken
  THEN [thrown |-> AppError("Token is required", 400)]
  ELSE LET r == verifyToken(token)
       IN  IF r.ok THEN ValidResponse(token, r.payload)
           ELSE [thrown |-> Error(r.error)]

\* Mutant: validateDemoToken decoding the token before verifying it and
\* returning what it decoded also when verification fails.
validateDemoTokenDecodeFirst(token) ==
  IF token = NoToken
  THEN [status |-> 400,
        body |-> [success |-> FALSE, error |-> "Token is required"]]
  ELSE IF Segments(token) # 3 THEN InvalidResponse("Failed to decode token")
  ELSE LET r == verifyToken(token)
       IN  IF r.ok THEN ValidResponse(token, r.payload)
           ELSE [status |-> 401,
                 body |-> [success |-> FALSE,
                           data |-> [valid |-> FALSE, error |-> r.error,
                                     decoded |-> decodeToken(token)],
                           error |-> "Token validation failed"]]

\* validateDemoToken (tokenController.ts:32-70)
validateDemoToken(token) ==
  IF token = NoToken
  THEN [status |-> 400,
        body |-> [success |-> FALSE, error |-> "Token is required"]]
  ELSE LET r == verifyToken(token)
       IN  IF r.ok THEN ValidResponse(token, r.payload)
           ELSE InvalidResponse(r.error)

\* validateToken (tokenController.ts:209-243)
validateToken(token) ==
  IF token = NoToken
  THEN [thrown |-> AppError("Token is required", 400)]
  ELSE LET r == verifyToken(token)
       IN  IF r.ok THEN ValidResponse(token, r.payload)
           ELSE InvalidResponse(r.error)

\* --------------------------------------------------------------- clients
\* What a client can make of a token it holds without the private key: the
\* payload segment replaced, or the signature segment replaced.
OtherPayloads(token) ==
  { [token.payload EXCEPT !.sub = c.sub, !.username = c.username,
                          !.email = c.email] : c \in ClaimSets }
  \cup { [token.payload EXCEPT !.exp = @ + 3600] }

\* Signature segments a client can write instead: bytes that are no signature
\* of any key of the service (key None), or the signature segment of another
\* token it holds.
OtherSignatures(token) ==
  { Sign(None, token.header, token.payload) }
  \cup { t.signature : t \in tokens }

PayloadTampered(token) ==
  { [token EXCEPT !.payload = p] : p \in OtherPayloads(token) \ {token.payload} }

SignatureTampered(token) ==
  { [token EXCEPT !.signature = sg] :
      sg \in OtherSignatures(token) \ {token.signature} }

Tampered(token) == PayloadTampered(token) \cup SignatureTampered(token)

\* Strings a client can make of a token that do not have two '.' separators:
\* the token cut after its first or its second segment, and the token with a
\* fourth segment appended.
Malformed(token) ==
  { [header |-> token.header],
    [header |-> token.header, payload |-> token.payload],
    [header |-> token.header, payload |-> token.payload,
     signature |-> token.signature, more |-> token.signature] }

\* Token strings a client may present to the service.
Presented ==
  tokens \cup UNION { Tampered(t) \cup Malformed(t) : t \in tokens }

\* Strings of three segments a client can make whose payload segment does not
\* decode, or decodes to claims without exp.
Undecodable(token) == { [token EXCEPT !.payload = NotJson] }

WithoutExp(token) ==
  { [token EXCEPT !.payload =
       [sub |-> token.payload.sub, username |-> token.payload.username,
        email |-> token.payload.email, iat |-> token.payload.iat,
        iss |-> token.payload.iss, aud |-> token.payload.aud]] }

\* Token strings given to the helpers that decode without verifying.
Inspected ==
  Presented
  \cup UNION { Undecodable(t) \cup WithoutExp(t) : t \in tokens }

\* index.ts:117-123,147: routes are dispatched once the server listens.
Serving == listening

\* ------------------------------------------------------------- requests
\* POST /api/token/generate and the other issuing handlers: generateToken
GenerateToken ==
  /\ Serving
  /\ \E c \in ClaimSets :
       LET r == generateToken(c)
       IN  /\ lastOp' = [op |-> "generateToken", input |-> c,
                         result |-> r]
           /\ IF r.ok
              THEN \E keep \in SUBSET tokens :
                     /\ Cardinality(keep) < MaxTokens
                     /\ tokens' = keep \cup {r.access_token}
              ELSE tokens' = tokens
  /\ UNCHANGED <<keyVars, svcVars, now, envVars>>

\* POST /api/token/validate and POST /api/auth/validate with a token:
\* verifyToken, and the response of the handler
VerifyToken ==
  /\ Serving
  /\ \E t \in Presented :
       \E outcome \in {validateDemoToken(t), validateToken(t)} :
          \E response \in Responses(outcome) :
             lastOp' = [op |-> "verifyToken", input |-> t,
                        result |-> verifyToken(t), response |-> response]
  /\ UNCHANGED <<keyVars, svcVars, now, tokens, envVars>>

\* The same requests without a token: answered before verifyToken is called
ValidateWithoutToken ==
  /\ Serving
  /\ \E outcome \in {validateDemoToken(NoToken), validateToken(NoToken)} :
       \E response \in Responses(outcome) :
          lastOp' = [op |-> "validate", response |-> response]
  /\ UNCHANGED <<keyVars, svcVars, now, tokens, envVars>>

\* GET /api/jwks: getJWKS
GetJWKS ==
  /\ Serving
  /\ LET again == lastOp.op = "getJWKS"
     IN  lastOp' = [op |-> "getJWKS", result |-> getJWKS, again |-> again,
                    calls |-> exportJWKCalls(again)]
  /\ UNCHANGED <<keyVars, svcVars, now, tokens, envVars>>

\* The clock advances by one second.
Tick ==
  /\ now < MaxTime
  /\ now' = now + 1
  /\ lastOp' = NoOp
  /\ UNCHANGED <<keyVars, svcVars, tokens, envVars>>

Next ==
  \/ Start
  \/ InitializeKeys
  \/ LoadKeysRead
  \/ LoadKeysImportPrivate
  \/ LoadKeysImportPublic
  \/ GenerateKeyPair
  \/ WritePrivateKey
  \/ WritePublicKey
  \/ Listen
  \/ ProcessExit
  \/ Restart
  \/ GenerateToken
  \/ VerifyToken
  \/ GetJWKS
  \/ Tick

Spec == Init /\ [][Next]_vars

\* A second call of the public method initializeKeys on the singleton of a
\* serving process (keyService.ts:19, 173), and its return to the caller.
InitializeKeysAgain ==
  /\ pc = "Ready"
  /\ pc' = "Initializing"
  /\ lastOp' = NoOp
  /\ UNCHANGED <<files, memory, listening, locals, nextKey, hist, kept>>

InitializeKeysAgainReturns ==
  /\ pc = "InitDone"
  /\ listening
  /\ pc' = "Ready"
  /\ lastOp' = NoOp
  /\ UNCHANGED <<files, memory, listening, locals, nextKey, hist, kept>>

NextRepeated ==
  \/ Next
  \/ InitializeKeysAgain
  \/ InitializeKeysAgainReturns

\* The service with initializeKeys callable again after startup.
SpecRepeated == Init /\ [][NextRepeated]_vars

\* JWT_ISSUER and JWT_AUDIENCE of a deployment that does not keep both
\* defaults.
Redeployments ==
  { <<"your-production-issuer", "jwt-generator-api">>,
    <<"jwt-generator-app", "your-production-audience">>,
    <<"your-production-issuer", "your-production-audience">> }

\* The process is stopped and a new one is started against the same keys
\* directory with JWT_ISSUER or JWT_AUDIENCE changed from the default: the
\* JWTService of the new process reads them in its constructor.
Reconfigure ==
  /\ pc \in {"Ready", "Exited"}
  /\ issuer \in Issuers /\ audience \in Audiences
  /\ \E env \in Redeployments : issuer' = env[1] /\ audience' = env[2]
  /\ prevKeys' = IF pc = "Ready" THEN <<privateKey, publicKey>> ELSE prevKeys
  /\ privateKey' = None /\ publicKey' = None
  /\ pc' = "Uninitialized" /\ listening' = FALSE
  /\ privateKeyExists' = FALSE /\ publicKeyExists' = FALSE
  /\ privateKeyPem' = Absent /\ publicKeyPem' = Absent
  /\ UNCHANGED <<files, nextKey, expirationTime, now, tokens, envVars>>
  /\ lastOp' = NoOp

NextReconfigured ==
  \/ Start
  \/ InitializeKeys
  \/ LoadKeysRead
  \/ LoadKeysImportPrivate
  \/ LoadKeysImportPublic
  \/ GenerateKeyPair
  \/ WritePrivateKey
  \/ WritePublicKey
  \/ Listen
  \/ ProcessExit
  \/ Reconfigure
  \/ GenerateToken
  \/ VerifyToken
  \/ GetJWKS
  \/ Tick

\* The service started with the default issuer and audience and redeployed
\* once with another issuer or audience.
SpecReconfigured == Init /\ [][NextReconfigured]_vars

\* A request whose body express.json cannot parse: the parser's error goes to
\* errorHandler and no route handler runs (index.ts:45, 131).
RejectBody ==
  /\ Serving
  /\ \E env \in NODE_ENV :
       lastOp' = [op |-> "bodyParser",
                  response |-> errorHandler(BodyParseError, env)]
  /\ UNCHANGED <<keyVars, svcVars, now, tokens, envVars>>

NextApi ==
  \/ Next
  \/ ValidateWithoutToken
  \/ RejectBody

\* The service with the middleware in front of its routes.
SpecApi == Init /\ [][NextApi]_vars

\* A call of jwtService.isTokenExpired in a serving process
IsTokenExpired ==
  /\ Serving
  /\ \E t \in Inspected :
       lastOp' = [op |-> "isTokenExpired", input |-> t,
                  result |-> isTokenExpired(t)]
  /\ UNCHANGED <<keyVars, svcVars, now, tokens, envVars>>

NextInspect ==
  \/ Start
  \/ InitializeKeys
  \/ GenerateKeyPair
  \/ WritePrivateKey
  \/ WritePublicKey
  \/ Listen
  \/ ProcessExit
  \/ GenerateToken
  \/ IsTokenExpired
  \/ Tick

\* One process on an empty keys directory, with the helpers of JWTService that
\* decode a token without verifying it.
SpecInspect == Init /\ [][NextInspect]_vars

\* Two instances, both just started, on one empty keys directory (README:
\* API1 and API2 on a shared volume).  The variables of the process are those
\* of the instance that takes the next step; peer holds the other one.
InitShared ==
  /\ privFile = Absent /\ pubFile = Absent
  /\ FreshProcess
  /\ nextKey = 1
  /\ prevKeys = <<None, None>>
  /\ issuer \in Issuers
  /\ audience \in Audiences
  /\ expirationTime \in ExpirationTimes
  /\ now = 0
  /\ tokens = {}
  /\ lastOp = NoOp
  /\ peer = [pc |-> "Uninitialized", privateKey |-> None, publicKey |-> None,
             listening |-> FALSE, privateKeyExists |-> FALSE,
             publicKeyExists |-> FALSE, privateKeyPem |-> Absent,
             publicKeyPem |-> Absent]
  /\ database = NewDatabase

\* The other instance takes the next steps.  The keys directory, the key
\* generator and the clients are common to both.
Switch ==
  /\ peer # NoPeer
  /\ peer' = [pc |-> pc, privateKey |-> privateKey, publicKey |-> publicKey,
              listening |-> listening,
              privateKeyExists |-> privateKeyExists,
              publicKeyExists |-> publicKeyExists,
              privateKeyPem |-> privateKeyPem, publicKeyPem |-> publicKeyPem]
  /\ pc' = peer.pc
  /\ privateKey' = peer.privateKey /\ publicKey' = peer.publicKey
  /\ listening' = peer.listening
  /\ privateKeyExists' = peer.privateKeyExists
  /\ publicKeyExists' = peer.publicKeyExists
  /\ privateKeyPem' = peer.privateKeyPem
  /\ publicKeyPem' = peer.publicKeyPem
  /\ lastOp' = NoOp
  /\ UNCHANGED <<files, nextKey, hist, svcVars, now, tokens, database>>

NextShared ==
  \/ Start
  \/ InitializeKeys
  \/ LoadKeysRead
  \/ LoadKeysImportPrivate
  \/ LoadKeysImportPublic
  \/ GenerateKeyPair
  \/ WritePrivateKey
  \/ WritePublicKey
  \/ Listen
  \/ ProcessExit
  \/ Switch
  \/ GenerateToken
  \/ VerifyToken

\* Two instances started on a shared, empty keys directory.
SpecShared == InitShared /\ [][NextShared]_vars

\* ------------------------------------------------------ protected routes

\* The Authorization header of a request: absent, of another scheme, or
\* 'Bearer ' followed by a token string (possibly empty).
NoHeader == [scheme |-> "none"]

AuthorizationHeaders ==
  { NoHeader, [scheme |-> "Basic"], [scheme |-> "Bearer", token |-> NoToken] }
  \cup { [scheme |-> "Bearer", token |-> t] : t \in Presented }

NoUser == [none |-> TRUE]

\* The user collection behind UserModel: at a lookup it holds some of the
\* registered users, or the database cannot be reached.
Users ==
  { [_id |-> c.sub, username |-> c.username, email |-> c.email] :
      c \in ClaimSets }

Unreachable == [up |-> FALSE, docs |-> {}]

Collections ==
  { [up |-> TRUE, docs |-> d] : d \in SUBSET Users } \cup {Unreachable}

Null == [null |-> TRUE]

MongoError ==
  [name |-> "MongoError", message |-> "connection lost",
   stack |-> StackOf("connection lost")]

\* UserModel.findById(id): the document with that _id, null, or a rejection
findById(id, collection) ==
  IF ~collection.up THEN [thrown |-> MongoError]
  ELSE IF \E u \in collection.docs : u._id = id
       THEN [user |-> CHOOSE u \in collection.docs : u._id = id]
       ELSE [user |-> Null]

Unauthorized(message) ==
  [status |-> 401, body |-> [success |-> FALSE, error |-> message]]

BearerToken(authHeader) ==
  IF authHeader.scheme = "Bearer" THEN authHeader.token ELSE NoToken

\* optionalAuth (auth.ts:62-90): calls next() whatever verifyToken says.
authenticateTokenOptional(authHeader) ==
  LET token == BearerToken(authHeader)
      r     == verifyToken(token)
  IN  IF token # NoToken /\ r.ok
      THEN [next |-> TRUE,
            user |-> [sub |-> r.payload.sub, username |-> r.payload.username,
                      email |-> r.payload.email]]
      ELSE [next |-> TRUE, user |-> NoUser]

\* authenticateToken (auth.ts:21-57)
authenticateToken(authHeader) ==
  LET token == BearerToken(authHeader)
  IN  IF token = NoToken
      THEN [next |-> FALSE,
            response |-> Unauthorized("Access token is required")]
      ELSE LET r == verifyToken(token)
           IN  IF r.ok
               THEN [next |-> TRUE,
                     user |-> [sub |-> r.payload.sub,
                               username |-> r.payload.username,
                               email |-> r.payload.email]]
               ELSE [next |-> FALSE, response |-> Unauthorized(r.error)]

\* validateUser (auth.ts:95-134)
validateUser(user, collection) ==
  IF user = NoUser
  THEN [next |-> FALSE, response |-> Unauthorized("User not authenticated")]
  ELSE LET f == findById(user.sub, collection)
       IN  IF "thrown" \in DOMAIN f
           THEN [next |-> FALSE,
                 response |-> [status |-> 500,
                               body |-> [success |-> FALSE,
                                         error |-> "User validation failed"]]]
           ELSE IF f.user = Null
           THEN [next |-> FALSE, response |-> Unauthorized("User not found")]
           ELSE [next |-> TRUE,
                 user |-> [sub |-> f.user._id, username |-> f.user.username,
                           email |-> f.user.email]]

\* getProfile (tokenController.ts:164-181)
getProfile(user, collection) ==
  IF user = NoUser
  THEN [thrown |-> AppError("User not authenticated", 401)]
  ELSE LET f == findById(user.sub, collection)
       IN  IF "thrown" \in DOMAIN f THEN f
           ELSE IF f.user = Null
           THEN [thrown |-> AppError("User not found", 404)]
           ELSE [status |-> 200,
                 body |-> [success |-> TRUE, data |-> f.user,
                           message |-> "Profile retrieved successfully"]]

\* refreshToken (tokenController.ts:183-207)
refreshToken(user, collection) ==
  IF user = NoUser
  THEN [thrown |-> AppError("User not authenticated", 401)]
  ELSE LET f == findById(user.sub, collection)
       IN  IF "thrown" \in DOMAIN f THEN f
           ELSE IF f.user = Null
           THEN [thrown |-> AppError("User not found", 404)]
           ELSE LET r == generateToken([sub |-> f.user._id,
                                        username |-> f.user.username,
                                        email |-> f.user.email])
                IN  IF ~r.ok THEN [thrown |-> Error(r.error)]
                    ELSE [status |-> 200,
                          body |-> [success |-> TRUE,
                                    data |-> [access_token |-> r.access_token,
                                              token_type |-> r.token_type,
                                              expires_in |-> r.expires_in],
                                    message |-> "Token refreshed successfully"]]

ProtectedRoutes == {"getProfile", "refreshToken"}

\* router.get('/profile', ...) and router.post('/refresh', ...)
\* (part_008:13-14): the middleware chain of one request.  reached lists the
\* functions that ran, lookups the state of the user collection at each
\* findById, authenticated is req.user as authenticateToken left it, user is
\* req.user as the last function that ran saw it.
Chain(route, authHeader) ==
  LET a == authenticateToken(authHeader)
  IN  IF ~a.next
      THEN { [reached |-> <<"authenticateToken">>, lookups |-> <<>>,
              authenticated |-> NoUser, user |-> NoUser,
              response |-> a.response] }
      ELSE UNION {
        LET v == validateUser(a.user, atValidate)
        IN  IF ~v.next
            THEN { [reached |-> <<"authenticateToken", "validateUser">>,
                    lookups |-> <<atValidate>>,
                    authenticated |-> a.user, user |-> a.user,
                    response |-> v.response] }
            ELSE { [reached |-> <<"authenticateToken", "validateUser",
                                  route>>,
                    lookups |-> <<atValidate, atHandler>>,
                    authenticated |-> a.user, user |-> v.user,
                    response |-> response] :
                   <<atHandler, response>> \in UNION {
                     { <<h, r>> : r \in Responses(
                          IF route = "getProfile"
                          THEN getProfile(v.user, h)
                          ELSE refreshToken(v.user, h)) } :
                     h \in Collections } }
        : atValidate \in Collections }

\* GET /api/auth/profile and POST /api/auth/refresh
Protected ==
  /\ Serving
  /\ \E route \in ProtectedRoutes, authHeader \in AuthorizationHeaders :
       \E c \in Chain(route, authHeader) :
          lastOp' = [op |-> "protected", route |-> route,
                     input |-> authHeader, reached |-> c.reached,
                     lookups |-> c.lookups,
                     authenticated |-> c.authenticated,
                     user |-> c.user, response |-> c.response]
  /\ UNCHANGED <<keyVars, svcVars, now, tokens, envVars>>

NextAuth ==
  \/ Start
  \/ InitializeKeys
  \/ GenerateKeyPair
  \/ WritePrivateKey
  \/ WritePublicKey
  \/ Listen
  \/ ProcessExit
  \/ GenerateToken
  \/ Protected
  \/ Tick

\* One process on an empty keys directory, with the routes behind
\* authenticateToken and validateUser.
SpecAuth == Init /\ [][NextAuth]_vars

\* ---------------------------------------------------------------- Database

\* process.env.SKIP_DATABASE === 'true' (database.ts:18)
SKIP_DATABASE == BOOLEAN
\* mongoose.connect(mongoUri) resolves or rejects (database.ts:33)
ConnectOutcomes == {"ok", "failed"}

\* Mutant: the catch of connect rethrowing what mongoose.connect threw.
connectRethrowing(db, skip, outcome) ==
  IF skip THEN [threw |-> FALSE, outcome |-> "skipped",
                database |-> [db EXCEPT !.isConnected = FALSE]]
  ELSE IF db.isConnected
  THEN [threw |-> FALSE, outcome |-> "already", database |-> db]
  ELSE IF outcome = "ok"
  THEN [threw |-> FALSE, outcome |-> "connected",
        database |-> [isConnected |-> TRUE, listeners |-> TRUE]]
  ELSE [threw |-> TRUE, outcome |-> "failed",
        database |-> [db EXCEPT !.isConnected = FALSE]]

\* Database.connect (database.ts:16-59)
connect(db, skip, outcome) ==
  IF skip THEN [threw |-> FALSE, outcome |-> "skipped",
                database |-> [db EXCEPT !.isConnected = FALSE]]
  ELSE IF db.isConnected
  THEN [threw |-> FALSE, outcome |-> "already", database |-> db]
  ELSE IF outcome = "ok"
  THEN [threw |-> FALSE, outcome |-> "connected",
        database |-> [isConnected |-> TRUE, listeners |-> TRUE]]
  ELSE [threw |-> FALSE, outcome |-> "failed",
        database |-> [db EXCEPT !.isConnected = FALSE]]

\* Database.isDbConnected (database.ts:76-78)
isDbConnected == database.isConnected

\* App.start up to the call of database.connect (index.ts:134-140)
StartConnecting ==
  /\ pc = "Uninitialized"
  /\ pc' = "Connecting"
  /\ UNCHANGED <<files, memory, listening, locals, nextKey, hist, kept>>
  /\ lastOp' = NoOp

\* App.start: `await database.connect()` (index.ts:140); what it throws is
\* caught by App.start, which exits the process (index.ts:163-166).
Connect ==
  /\ pc = "Connecting"
  /\ \E skip \in SKIP_DATABASE, outcome \in ConnectOutcomes :
       LET r == connect(database, skip, outcome)
       IN  /\ database' = r.database
           /\ pc' = IF r.threw THEN AfterInitFailure ELSE "Initializing"
           /\ lastOp' = [op |-> "connect", threw |-> r.threw,
                         outcome |-> r.outcome]
  /\ UNCHANGED <<files, memory, listening, locals, nextKey, hist, svcVars,
                 now, tokens, peer>>

\* mongoose emits 'error' or 'disconnected' on the connection; the listeners
\* registered by connect run (database.ts:39-47).
ConnectionEvents == {"error", "disconnected"}

ConnectionEvent ==
  /\ database.listeners
  /\ pc \notin {"Exited"}
  /\ \E event \in ConnectionEvents :
       lastOp' = [op |-> "connectionEvent", event |-> event]
  /\ database' = [database EXCEPT !.isConnected = FALSE]
  /\ UNCHANGED <<keyVars, svcVars, now, tokens, peer>>

NextDatabase ==
  \/ StartConnecting
  \/ Connect
  \/ ConnectionEvent
  \/ InitializeKeys
  \/ GenerateKeyPair
  \/ WritePrivateKey
  \/ WritePublicKey
  \/ Listen
  \/ ProcessExit
  \/ GenerateToken
  \/ Tick

\* One process on an empty keys directory, with the database connection of
\* App.start.
SpecDatabase == Init /\ [][NextDatabase]_vars

NextTokens ==
  \/ Start
  \/ InitializeKeys
  \/ GenerateKeyPair
  \/ WritePrivateKey
  \/ WritePublicKey
  \/ Listen
  \/ ProcessExit
  \/ GenerateToken
  \/ VerifyToken
  \/ IsTokenExpired
  \/ Tick

\* One process on an empty keys directory, with every operation of JWTService
\* on tokens.
SpecTokens == Init /\ [][NextTokens]_vars

\* ================================================================ claims
TypeOK ==
  /\ privFile \in KeyIds \cup {Absent, Corrupt}
  /\ pubFile \in KeyIds \cup {Absent, Corrupt}
  /\ privateKey \in KeyIds \cup {None}
  /\ publicKey \in KeyIds \cup {None}
  /\ listening \in BOOLEAN
  /\ nextKey \in 1..(MaxKeys + 1)
  /\ now \in 0..MaxTime
  /\ Cardinality(tokens) <= MaxTokens

InitResolved == pc \in {"InitDone", "Ready"}

\* C1: when exactly one of the two artifacts exists, initializeKeys fails and
\* neither generates a key pair nor goes on to write an artifact.
C1_ExactlyOneArtifactIsFatal ==
  (privateKeyExists # publicKeyExists) =>
     (pc = "Failed" /\ privateKey = None /\ publicKey = None)

\* C2: a process start after one whose initializeKeys resolved ends with the
\* same key pair and key id, and every unexpired token issued with the earlier
\* key pair still verifies.
C2_RestartKeepsKeyPair ==
  (InitResolved /\ prevKeys # <<None, None>>) =>
     /\ <<privateKey, publicKey>> = prevKeys
     /\ \A t \in tokens :
          (t.signature.key = prevKeys[1] /\ now < t.payload.exp) =>
             (t.header.kid = keyId /\ verifyToken(t).ok)

\* C3: a storage fault during initializeKeys aborts startup: the service never
\* serves with a key pair that is not fully persisted.
C3_ServingImpliesPersisted ==
  listening =>
     (privateKey # None /\ privFile = privateKey /\ pubFile = publicKey)

\* C4: every issuance, verification and JWKS publish is served after
\* initializeKeys has resolved, with both halves of the key pair set.
C4_InitializationBarrier ==
  (lastOp.op # "none") =>
     (pc = "Ready" /\ privateKey # None /\ publicKey # None)

\* C4 witness: a request served by a process that went through loadKeys, where
\* the private key is assigned before the public key.
C4_Witness ==
  /\ lastOp.op = "verifyToken"
  /\ privateKeyPem # Absent

\* C5: outside the Ready state getPrivateKey and getPublicKey throw.
C5_GettersThrowUnlessReady ==
  (KeyManagerState # "Ready") => (getPrivateKey.threw /\ getPublicKey.threw)

\* C6: the key manager moves Uninitialized -> Initializing -> Ready or
\* Initializing -> Failed; from Failed the process only exits, and it never
\* listens.
ProcessSteps ==
  { <<"Uninitialized", "Initializing">>, <<"Initializing", "Initializing">>,
    <<"Initializing", "Ready">>, <<"Initializing", "Failed">>,
    <<"Uninitialized", "Uninitialized">>, <<"Ready", "Ready">>,
    <<"Failed", "Failed">> }

NewProcess ==
  /\ pc \in {"Ready", "Exited"}
  /\ pc' = "Uninitialized" /\ privateKey' = None /\ publicKey' = None
  /\ ~listening'

C6_FailedIsTerminal ==
  [][ /\ (<<KeyManagerState, KeyManagerState'>> \in ProcessSteps \/ NewProcess)
      /\ (KeyManagerState = "Failed" => ~listening /\ ~listening')
      /\ (pc = "Failed" /\ pc' # pc => pc' = "Exited") ]_vars

\* C6 witness: initializeKeys failed part-way, after the private key was set.
C6_Witness == pc = "Failed" /\ privateKey # None /\ publicKey = None

\* C7: once initializeKeys has resolved in a process, its key pair never
\* changes, repeated calls of initializeKeys included.
C7_KeyPairNeverChanges ==
  [][ (listening /\ listening') =>
        (privateKey' = privateKey /\ publicKey' = publicKey) ]_vars

\* C8: with both artifacts present initializeKeys loads them and leaves them
\* as they are; with neither present it generates a pair, and when it resolves
\* both artifacts are in storage.
C8_LoadOrGenerateAndPersist ==
  /\ (InitResolved /\ privateKeyExists /\ publicKeyExists) =>
        /\ privateKey = privateKeyPem /\ publicKey = publicKeyPem
        /\ privFile = privateKeyPem /\ pubFile = publicKeyPem
  /\ (InitResolved /\ ~privateKeyExists /\ ~publicKeyExists) =>
        /\ privateKey # None /\ publicKey # None
        /\ privFile = privateKey /\ pubFile = publicKey

\* The units of a ttl and the length of a time span as the specification
\* counts it.
TtlUnits == {"s", "m", "h", "d"}

UnitSeconds(unit) ==
  CASE unit = "s" -> 1 [] unit = "m" -> 60 [] unit = "h" -> 3600
    [] unit = "d" -> 86400

TtlSeconds(span) == span.value * UnitSeconds(span.unit)

SameClaims(p, q) ==
  p.sub = q.sub /\ p.username = q.username /\ p.email = q.email

TamperedPresented == (UNION { Tampered(t) : t \in tokens }) \ tokens

\* The classes of error jose.jwtVerify throws.
JoseErrorClasses ==
  { "JWSInvalid", "JWSSignatureVerificationFailed", "JWTInvalid",
    "JWTClaimValidationFailed", "JWTExpired" }

\* A reason that tells the caller the signature is what failed.
IsInvalidSignatureReason(message) ==
  \A class \in JoseErrorClasses :
     VerifyErrorMessage(class) = message =>
        class = "JWSSignatureVerificationFailed"

CorrectlySigned(token) ==
  /\ Segments(token) = 3
  /\ publicKey # None
  /\ token.signature = Sign(publicKey, token.header, token.payload)

\* A token of this service: correctly signed, with the configured iss and aud.
OwnToken(token) ==
  /\ CorrectlySigned(token)
  /\ token.payload.iss = issuer
  /\ token.payload.aud = audience

\* C11: verifyToken accepts a token only while the clock is before its exp; a
\* token of the service verified in the second of its exp or later is rejected
\* with 'Token has expired', whatever its ttl.
C11_Expiry ==
  (lastOp.op = "verifyToken") =>
     /\ lastOp.result.ok => now < lastOp.input.payload.exp
     /\ (OwnToken(lastOp.input) /\ lastOp.input.payload.exp <= now) =>
           (~lastOp.result.ok /\ lastOp.result.error = "Token has expired")

\* C11 witness: a token of the service verified in the very second of its exp.
C11_Witness ==
  /\ lastOp.op = "verifyToken"
  /\ OwnToken(lastOp.input)
  /\ lastOp.input.payload.exp = now
  /\ lastOp.result = [ok |-> FALSE, error |-> "Token has expired"]

\* The reasons verifyToken gives for a signature that does not verify, for an
\* expired token and for an iss or aud that is not the configured one.
OtherFailureReasons ==
  { VerifyErrorMessage(class) :
      class \in { "JWSSignatureVerificationFailed", "JWTExpired",
                  "JWTClaimValidationFailed" } }

\* C12: a string that does not have exactly two '.' separators is rejected by
\* verifyToken with a reason of its own, one that is not the reason given for
\* a bad signature, an expired token or a claim mismatch.
C12_MalformedRejectedAsMalformed ==
  (lastOp.op = "verifyToken" /\ Segments(lastOp.input) # 3) =>
     /\ ~lastOp.result.ok
     /\ lastOp.result.error \notin OtherFailureReasons

ClaimMismatch(token) ==
  token.payload.iss # issuer \/ token.payload.aud # audience

\* C13 as stated: exp is checked before iss and aud.  A correctly signed token
\* past its exp fails with the expired reason whatever its iss and aud; one
\* before its exp with another iss or aud fails with the reason of a claim
\* mismatch.
C13_ExpiryBeforeClaims ==
  (lastOp.op = "verifyToken" /\ CorrectlySigned(lastOp.input)) =>
     /\ lastOp.input.payload.exp <= now =>
           lastOp.result = [ok |-> FALSE, error |-> "Token has expired"]
     /\ (now < lastOp.input.payload.exp /\ ClaimMismatch(lastOp.input)) =>
           lastOp.result =
             [ok |-> FALSE,
              error |-> VerifyErrorMessage("JWTClaimValidationFailed")]

\* C13 amended: iss and aud are checked before exp.  A correctly signed token
\* with another iss or aud fails with 'Token verification failed', expired or
\* not, and 'Token has expired' is reported only for a correctly signed token
\* with the configured iss and aud; a string that is no compact form fails
\* before all of these.
C13_ClaimsBeforeExpiry ==
  (lastOp.op = "verifyToken") =>
     /\ (CorrectlySigned(lastOp.input) /\ ClaimMismatch(lastOp.input)) =>
           lastOp.result =
             [ok |-> FALSE, error |-> "Token verification failed"]
     /\ (~lastOp.result.ok /\ lastOp.result.error = "Token has expired") =>
           (OwnToken(lastOp.input) /\ lastOp.input.payload.exp <= now)
     /\ Segments(lastOp.input) # 3 =>
           lastOp.result =
             [ok |-> FALSE, error |-> VerifyErrorMessage("JWSInvalid")]

\* C13 witness: a correctly signed token, past its exp and with an iss that is
\* not the configured one, was rejected.
C13_Witness ==
  /\ lastOp.op = "verifyToken"
  /\ CorrectlySigned(lastOp.input)
  /\ lastOp.input.payload.iss # issuer
  /\ lastOp.input.payload.exp <= now
  /\ ~lastOp.result.ok

\* C14: with a configured ttl whose unit is not one of s, m, h, d generateToken
\* returns neither a token nor an expires_in.
C14_UnknownUnitRejected ==
  (lastOp.op = "generateToken" /\ expirationTime.unit \notin TtlUnits) =>
     ~lastOp.result.ok

\* C15: whenever generateToken returns a token, the expires_in it returns is
\* exp - iat of that token.
C15_ExpiresInIsSignedLifetime ==
  (lastOp.op = "generateToken" /\ lastOp.result.ok) =>
     lastOp.result.expires_in =
       lastOp.result.access_token.payload.exp
         - lastOp.result.access_token.payload.iat

\* The same, for the ttl units s, m, h and d only.
ExpiresInOfKnownUnits ==
  (lastOp.op = "generateToken" /\ lastOp.result.ok
     /\ expirationTime.unit \in TtlUnits) =>
     /\ lastOp.result.expires_in = TtlSeconds(expirationTime)
     /\ lastOp.result.expires_in =
          lastOp.result.access_token.payload.exp
            - lastOp.result.access_token.payload.iat

\* C16: every issued token has the header alg RS256, typ JWT and kid
\* getKeyId(), and the published JWKS has a single key entry whose kid is
\* getKeyId() as well.
C16_KidConsistent ==
  /\ \A t \in tokens :
        t.header = [alg |-> "RS256", typ |-> "JWT", kid |-> getKeyId]
  /\ (lastOp.op = "generateToken" /\ lastOp.result.ok) =>
        lastOp.result.access_token.header
          = [alg |-> "RS256", typ |-> "JWT", kid |-> getKeyId]
  /\ (lastOp.op = "getJWKS") =>
        /\ lastOp.result.ok
        /\ Len(lastOp.result.keys) = 1
        /\ lastOp.result.keys[1].kid = getKeyId
        /\ \A t \in tokens : t.header.kid = lastOp.result.keys[1].kid

\* C16 witness: the JWKS was published while a client holds a token issued by
\* an earlier process.
C16_Witness ==
  /\ lastOp.op = "getJWKS"
  /\ lastOp.result.ok
  /\ tokens # {}
  /\ prevKeys # <<None, None>>

\* The key id a deployment with KEY_ID = env is to use.
ConfiguredKeyId(env) == IF env = "" THEN "default-key-id" ELSE env

\* C17: whatever KEY_ID the process was started with, getKeyId, the kid of
\* issued tokens and the kid of the JWKS entry are that value, or
\* 'default-key-id' when it is not set.
C17_KeyIdFromConfiguration ==
  \A env \in KEY_ID :
     /\ getKeyId = ConfiguredKeyId(env)
     /\ (lastOp.op = "generateToken" /\ lastOp.result.ok) =>
           lastOp.result.access_token.header.kid = ConfiguredKeyId(env)
     /\ (lastOp.op = "getJWKS" /\ lastOp.result.ok) =>
           lastOp.result.keys[1].kid = ConfiguredKeyId(env)

\* C18: a call of getJWKS in a listening process returns the document made of
\* the public key held, with exactly one entry of kty RSA, use sig, key_ops
\* [verify], alg RS256; and no step of a listening process, issuance and
\* verification included, changes the document getJWKS returns, so any two
\* calls within one process return the same document.
C18_JWKSStable ==
  [][ /\ (lastOp'.op = "getJWKS") =>
           /\ lastOp'.result = getJWKS'
           /\ lastOp'.result.ok
           /\ Len(lastOp'.result.keys) = 1
           /\ lastOp'.result.keys[1].kty = "RSA"
           /\ lastOp'.result.keys[1].use = "sig"
           /\ lastOp'.result.keys[1].key_ops = <<"verify">>
           /\ lastOp'.result.keys[1].alg = "RS256"
      /\ (listening /\ listening') => getJWKS' = getJWKS ]_vars

\* C18 witness: getJWKS called in a process that has issued a token a second
\* or more before.
C18_Witness ==
  /\ lastOp.op = "getJWKS"
  /\ \E t \in tokens :
        /\ t.signature.key = publicKey
        /\ t.payload.iat < now

\* C20: whenever verifyToken fails on a token submitted to a validation
\* endpoint, the handler itself answers, with status 401 and a body carrying
\* valid = FALSE and the reason verifyToken gave; the failure never reaches
\* errorHandler.  valid = TRUE is answered only when verifyToken succeeded.
C20_ValidationFailuresCaught ==
  (lastOp.op = "verifyToken") =>
     /\ "data" \in DOMAIN lastOp.response.body
     /\ lastOp.response.body.data.valid = lastOp.result.ok
     /\ ~lastOp.result.ok =>
           /\ lastOp.response.status = 401
           /\ lastOp.response.body.data.error = lastOp.result.error
           /\ lastOp.response.body.data.error \in
                 { "Token has expired", "Invalid token",
                   "Token verification failed" }

\* C20 witness: a string that is no compact form, on which jose throws, was
\* answered by the handler with valid = FALSE.
C20_Witness ==
  /\ lastOp.op = "verifyToken"
  /\ Segments(lastOp.input) # 3
  /\ lastOp.response = InvalidResponse("Token verification failed")

\* The messages the application writes into the error field of a response.
ResponseMessages ==
  { "Token is required", "Token validation failed", "Internal Server Error",
    "Validation Error", "Invalid ID format", "Database Error" }

\* C21: no response carries a stack trace or the text of an exception the
\* application did not write itself, whatever NODE_ENV is.
C21_NoInternalTextInResponses ==
  ("response" \in DOMAIN lastOp) =>
     /\ "stack" \notin DOMAIN lastOp.response.body
     /\ ~lastOp.response.body.success =>
           lastOp.response.body.error \in ResponseMessages

BothInitialized ==
  /\ peer # NoPeer
  /\ InitResolved
  /\ peer.pc \in {"InitDone", "Ready"}

\* C23: once two instances started on one empty keys directory have both
\* completed initializeKeys, they hold the same key pair, a token issued by
\* one verifies at the other, and the two artifacts are of one key pair.
C23_InstancesShareKeyPair ==
  BothInitialized =>
     /\ privateKey = peer.privateKey /\ publicKey = peer.publicKey
     /\ \A c \in ClaimSets :
          generateToken(c).ok =>
            /\ JwtVerify(generateToken(c).access_token, peer.publicKey,
                         issuer, audience, now).error = "none"
            /\ verifyToken(BuildToken(c, peer.privateKey)).ok
     /\ privFile = pubFile /\ privFile \in KeyIds

\* C24: in every reachable state of the keys directory, whenever both
\* artifacts exist they are the two halves of one key pair, and once
\* initializeKeys has resolved they are the halves of the in-memory key pair.
C24_ArtifactsAreOnePair ==
  /\ (privFile # Absent /\ pubFile # Absent) =>
        (privFile \in KeyIds /\ pubFile = privFile)
  /\ InitResolved => (privFile = privateKey /\ pubFile = publicKey)

\* The first half of C24 alone, restricted to artifacts that parse as keys.
C24_ParsableArtifactsMatch ==
  (privFile \in KeyIds /\ pubFile \in KeyIds) => pubFile = privFile

VerifiedBearer(authHeader) ==
  /\ BearerToken(authHeader) # NoToken
  /\ verifyToken(BearerToken(authHeader)).ok

ResponseData(response) ==
  IF "data" \in DOMAIN response.body THEN response.body.data ELSE [valid |-> FALSE]

\* C26: the validation endpoints return the decodeToken result and valid = true
\* only for a token on which verifyToken succeeded in the same request; the
\* response for a token that failed verification carries no decoded header or
\* payload.
C26_DecodedOnlyAfterVerification ==
  lastOp.op = "verifyToken" =>
    LET data == ResponseData(lastOp.response)
    IN  /\ lastOp.result = verifyToken(lastOp.input)
        /\ lastOp.result.ok =>
              /\ data.valid
              /\ data.payload = lastOp.result.payload
              /\ data.decoded = decodeToken(lastOp.input)
        /\ ~lastOp.result.ok =>
              /\ ~data.valid
              /\ DOMAIN data \cap {"decoded", "payload", "header"} = {}

\* a token that decodes but does not verify was presented for validation
C26_Witness ==
  /\ lastOp.op = "verifyToken"
  /\ ~lastOp.result.ok
  /\ Segments(lastOp.input) = 3
  /\ lastOp.response.status = 401

\* C27: for every correctly signed token with the configured issuer and
\* audience, at every current time, isTokenExpired returns true exactly when
\* verifyToken rejects the token as expired.
C27_ExpiryHelpersAgree ==
  (lastOp.op = "isTokenExpired" /\ OwnToken(lastOp.input)) =>
     LET v == verifyToken(lastOp.input)
     IN  lastOp.result.value <=> (~v.ok /\ v.error = "Token has expired")

\* The two agree at every current time other than the second of exp.
C27_AgreeExceptAtExp ==
  (lastOp.op = "isTokenExpired" /\ OwnToken(lastOp.input)
     /\ lastOp.input.payload.exp # now) =>
     LET v == verifyToken(lastOp.input)
     IN  lastOp.result.value <=> (~v.ok /\ v.error = "Token has expired")

\* C28: Database.connect never throws and leaves isConnected false on failure
\* or when SKIP_DATABASE is set; App.start goes on to initializeKeys after it
\* whatever its outcome, and the server is not started without one; isConnected
\* becomes true only by a successful connect and is false after every error or
\* disconnected event.
C28_DatabaseIsOptional ==
  [][ /\ lastOp'.op = "connect" =>
           /\ ~lastOp'.threw
           /\ lastOp'.outcome \in {"failed", "skipped"} => ~isDbConnected'
           /\ pc' = "Initializing"
      /\ (isDbConnected' /\ ~isDbConnected) =>
           (lastOp'.op = "connect" /\ lastOp'.outcome = "connected")
      /\ lastOp'.op = "connectionEvent" => ~isDbConnected'
      /\ (pc = "Connecting" /\ pc' # pc) => lastOp'.op = "connect"
    ]_vars

\* the server listens although the connection failed
C28_Witness ==
  /\ pc = "Ready" /\ listening
  /\ ~isDbConnected /\ ~database.listeners

TokenOps == {"generateToken", "verifyToken", "isTokenExpired"}

\* C30: generateToken, verifyToken (with the decodeToken of the validation
\* handlers) and isTokenExpired leave the key pair, the key id, the key
\* artifacts and the issuer, audience and ttl configuration as they were,
\* whether they succeed or fail, and change no state of the service at all;
\* the result of each is what the operation gives for its input with the
\* keys, the configuration and the clock of the moment, the same before and
\* after the call and whatever requests came before.
C30_TokenOperationsAreStateless ==
  [][ lastOp'.op \in TokenOps =>
        /\ UNCHANGED <<privateKey, publicKey, getKeyId, privFile, pubFile,
                       issuer, audience, expirationTime>>
        /\ UNCHANGED <<keyVars, svcVars, envVars, now>>
        /\ lastOp'.op = "generateToken" =>
             /\ lastOp'.result = generateToken(lastOp'.input)
             /\ lastOp'.result = (generateToken(lastOp.input))'
        /\ lastOp'.op = "verifyToken" =>
             /\ lastOp'.result = verifyToken(lastOp'.input)
             /\ lastOp'.result = (verifyToken(lastOp.input))'
        /\ lastOp'.op = "isTokenExpired" =>
             /\ lastOp'.result = isTokenExpired(lastOp'.input)
             /\ lastOp'.result = (isTokenExpired(lastOp.input))'
    ]_vars

\* an issued token was presented to the running service and accepted
C30_Witness ==
  /\ lastOp.op = "verifyToken"
  /\ lastOp.result.ok
  /\ lastOp.input \in tokens
  /\ pc = "Ready"

====
